---- MODULE Spec2Model ----
(***************************************************************************)
(* A model of the WebSocket engine of src/src/ws.rs: the incremental frame *)
(* parser (IncompleteFragment), the message assembler (IncompleteMessage), *)
(* and the session (Websocket: read, send, send_text, send_bytes, close).  *)
(* Bytes are the integers 0..255; a Vec<u8> or a slice is a sequence.      *)
(* A Rust panic (a failed assert!, an index out of range) unwinds the      *)
(* thread that owns the session: the model records it in panic and stops.  *)
(***************************************************************************)
EXTENDS Integers, Sequences, FiniteSets, TLC

VARIABLES
    closed,               \* Websocket.closed
    incomplete_fragment,  \* Websocket.incomplete_fragment.bytes
    incomplete_message,   \* Websocket.incomplete_message: [opcode, bytes]
    pc,                   \* where the session's thread is
    panic,                \* "none", or the place where the thread panicked
    received,             \* read(): the slice of the buffer not yet parsed
    messages,             \* read(): the local Vec<Message>
    hdr,                  \* send(): the header bytes not yet written
    data,                 \* send(): the payload bytes not yet written
    sender,               \* send(): who called it ("read", "send_text", ...)
    wire,                 \* transport: bytes the peer sent, not yet read
    out,                  \* transport: bytes written by the current (last) call
    ret,                  \* the value the last call returned (NoRet during a call)
    rxFrame,              \* the frame the parser completed in the last step
    sends,                \* history: the send()s of the current (last) call
    sent,                 \* history: the frames the peer has put on the wire
    parts,                \* history: fragments of the message being assembled
    frames,               \* history: the frames the parser has emitted
    ioFailed,             \* history: a write of the current (last) call failed
    closeSeen,            \* history: read() was handed a close frame, or close() was called
    writeTick,            \* history: the writes in a row that took no byte are odd in number
    handler,              \* handle_ws: where the connection handler is ("" without one)
    todo                  \* handle_ws: the messages of the last read() not yet handled

vars == <<closed, incomplete_fragment, incomplete_message, pc, panic, received,
          messages, hdr, data, sender, wire, out, ret, rxFrame, sends, sent,
          parts, frames, ioFailed, closeSeen, writeTick, handler, todo>>

(***************************************************************************)
(* Bytes and bit operations.                                               *)
(***************************************************************************)
Byte == 0..255

RECURSIVE XorBits(_, _, _)
XorBits(a, b, n) ==
    IF n = 0 THEN 0
    ELSE ((a + b) % 2) + 2 * XorBits(a \div 2, b \div 2, n - 1)

\* payload_data[i] ^= mask[j] on u8
Xor8(a, b) == XorBits(a, b, 8)

RECURSIVE FromBeBytes(_)
\* u16::from_be_bytes / u64::from_be_bytes
FromBeBytes(bs) ==
    IF bs = <<>> THEN 0
    ELSE bs[Len(bs)] + 256 * FromBeBytes(SubSeq(bs, 1, Len(bs) - 1))

RECURSIVE ToBeBytes(_, _)
\* (x as u16).to_be_bytes() with n = 2, (x as u64).to_be_bytes() with n = 8
ToBeBytes(x, n) ==
    IF n = 0 THEN <<>>
    ELSE Append(ToBeBytes(x \div 256, n - 1), x % 256)

\* the slice s[from..] (from is a 0-based offset)
Drop(s, from) == SubSeq(s, from + 1, Len(s))

\* the slice s[0..n]
Take(s, n) == SubSeq(s, 1, n)

\* Lengths are usize (64 bits); the model's integers are narrower.  A length
\* of HugeLen or more exceeds every buffer of the model, and all such lengths
\* behave alike in every comparison append() makes, so they are cut to HugeLen.
HugeLen == 64 * 256 * 256 * 256

(***************************************************************************)
(* IncompleteFragment: the incremental frame parser.                       *)
(***************************************************************************)
MIN_SIZE == 2

\* self.bytes[1] >> 7 != 0   (callers hold at least MIN_SIZE bytes)
is_masked(bytes) == (bytes[2] \div 128) # 0

\* self.bytes[1] & 0x7F
provisional_payload_length(bytes) == bytes[2] % 128

get_length_till_end_of_payload(bytes) ==
    CASE provisional_payload_length(bytes) = 126 -> MIN_SIZE + 2
      [] provisional_payload_length(bytes) = 127 -> MIN_SIZE + 8
      [] OTHER -> MIN_SIZE

\* payload_len(): called once the extended length is buffered
payload_len(bytes) ==
    CASE provisional_payload_length(bytes) = 126 ->
            FromBeBytes(SubSeq(bytes, 3, 4))
      [] provisional_payload_length(bytes) = 127 ->
            IF (\E i \in 3..6 : bytes[i] # 0) \/ bytes[7] >= 64
            THEN HugeLen
            ELSE FromBeBytes(SubSeq(bytes, 7, 10))
      [] OTHER -> provisional_payload_length(bytes)

\* end_of_mask + payload_len does not fit a usize (payload_len >= 2^64 - end_of_mask)
LengthOverflows(bytes, end_of_mask) ==
    /\ provisional_payload_length(bytes) = 127
    /\ \A i \in 3..9 : bytes[i] = 255
    /\ bytes[10] + end_of_mask >= 256

NoMask == <<>>

\* get_mask(): the 4 key bytes, or None (NoMask)
get_mask(bytes) ==
    LET payload_len_end == get_length_till_end_of_payload(bytes) IN
    IF Len(bytes) <= payload_len_end + 4 \/ ~is_masked(bytes)
    THEN NoMask
    ELSE SubSeq(bytes, payload_len_end + 1, payload_len_end + 4)

(***************************************************************************)
(* try_append_nbytes(n, bytes): the loop tests bytes.len() == 0 on the     *)
(* slice as it was on entry (the slice is only advanced after the loop)    *)
(* and reads bytes[i]: with 0 < bytes.len() < n the read of bytes[len] is  *)
(* out of range and panics, after len bytes were pushed.                   *)
(*   st = "ok": n bytes moved; "short": nothing offered, false returned;   *)
(*   "panic": index out of range.                                          *)
(***************************************************************************)
try_append_nbytes(self, n, bytes) ==
    IF n = 0 THEN [st |-> "ok", self |-> self, rest |-> bytes]
    ELSE IF Len(bytes) = 0 THEN [st |-> "short", self |-> self, rest |-> bytes]
    ELSE IF Len(bytes) < n
         THEN [st |-> "panic", self |-> self \o bytes, rest |-> bytes]
    ELSE [st |-> "ok", self |-> self \o Take(bytes, n), rest |-> Drop(bytes, n)]

\* a faulty unmasking: the key index is counted from the start of the buffer
Unmask_from_buffer_start(bytes, end_of_mask, mask) ==
    [i \in 1..Len(bytes) |->
        IF i <= end_of_mask THEN bytes[i]
        ELSE Xor8(bytes[i], mask[((i - 1) % 4) + 1])]

\* the XOR loop of append(): payload_data[i] ^= mask[i % 4]
Unmask(bytes, end_of_mask, mask) ==
    [i \in 1..Len(bytes) |->
        IF i <= end_of_mask THEN bytes[i]
        ELSE Xor8(bytes[i], mask[((i - end_of_mask - 1) % 4) + 1])]

NoFragment == [bytes |-> <<>>, payload_offset |-> 0]

\* what append() hands back: res is "none" (Ok(None)), "some" (Ok(Some(fragment)))
\* or "panic"; self is self.bytes afterwards, rest the caller's slice afterwards
AppendResult(res, why, self, rest, fragment) ==
    [res |-> res, why |-> why, self |-> self, rest |-> rest, fragment |-> fragment]

\* stage 4 of append(): the payload, the unmasking and the hand-over
AppendPayload(self, input, end_of_mask) ==
    LET plen == payload_len(self)
        end_of_fragment == end_of_mask + plen
    IN
    \* end_of_mask + payload_len past usize: a debug build panics on the
    \* addition, a release build wraps to a value below end_of_mask and the
    \* assert! of line 269 fails; both panic here
    IF LengthOverflows(self, end_of_mask)
    THEN AppendResult("panic", "overflow", self, input, NoFragment)
    ELSE IF ~(Len(self) < end_of_fragment)
    THEN AppendResult("panic", "assert_269", self, input, NoFragment)
    ELSE
      LET t == try_append_nbytes(self, end_of_fragment - Len(self), input) IN
      IF t.st = "panic"
      THEN AppendResult("panic", "index", t.self, t.rest, NoFragment)
      ELSE IF t.st = "short"
      THEN AppendResult("none", "", t.self, t.rest, NoFragment)
      ELSE
        LET mask == get_mask(t.self)
            done == IF mask # NoMask THEN Unmask(t.self, end_of_mask, mask)
                    ELSE t.self
        IN AppendResult("some", "", <<>>, t.rest,
                        [bytes |-> done, payload_offset |-> end_of_mask])

\* stage 3 of append(): the mask key
AppendMask(self, input, till_end) ==
    IF is_masked(self)
    THEN LET end_of_mask == till_end + 4 IN
         IF Len(self) < end_of_mask
         THEN LET t == try_append_nbytes(self, end_of_mask - Len(self), input) IN
              IF t.st = "panic"
              THEN AppendResult("panic", "index", t.self, t.rest, NoFragment)
              ELSE IF t.st = "short"
              THEN AppendResult("none", "", t.self, t.rest, NoFragment)
              ELSE AppendPayload(t.self, t.rest, end_of_mask)
         ELSE AppendPayload(self, input, end_of_mask)
    ELSE AppendPayload(self, input, till_end)

\* stage 2 of append(): the extended payload length
AppendLength(self, input) ==
    LET till_end == get_length_till_end_of_payload(self) IN
    IF Len(self) < till_end
    THEN LET t == try_append_nbytes(self, till_end - Len(self), input) IN
         IF t.st = "panic"
         THEN AppendResult("panic", "index", t.self, t.rest, NoFragment)
         ELSE IF t.st = "short"
         THEN AppendResult("none", "", t.self, t.rest, NoFragment)
         ELSE AppendMask(t.self, t.rest, till_end)
    ELSE AppendMask(self, input, till_end)

\* IncompleteFragment::append(&mut self, data)
append(self, input) ==
    IF Len(self) < MIN_SIZE
    THEN LET t == try_append_nbytes(self, MIN_SIZE - Len(self), input) IN
         IF t.st = "panic"
         THEN AppendResult("panic", "index", t.self, t.rest, NoFragment)
         ELSE IF t.st = "short"
         THEN AppendResult("none", "", t.self, t.rest, NoFragment)
         ELSE AppendLength(t.self, t.rest)
    ELSE AppendLength(self, input)

(***************************************************************************)
(* Fragment                                                                *)
(***************************************************************************)
payload(fragment) == Drop(fragment.bytes, fragment.payload_offset)

is_fin(fragment) == (fragment.bytes[1] \div 128) # 0

opcode(fragment) == fragment.bytes[1] % 16

\* a faulty is_control_frame: only close and ping count as control frames
is_control_frame_close_or_ping(fragment) == opcode(fragment) \in {8, 9}

is_control_frame(fragment) == (opcode(fragment) \div 8) # 0

(***************************************************************************)
(* Message and Error                                                       *)
(***************************************************************************)
None == -1

Text(bytes) == [kind |-> "Text", data |-> bytes, code |-> None]

Binary(bytes) == [kind |-> "Binary", data |-> bytes, code |-> None]

\* Close(Option<u16>): code is None or the status code
Close(code) == [kind |-> "Close", data |-> <<>>, code |-> code]

NoMessage == [kind |-> "", data |-> <<>>, code |-> None]

\* the three &'static str of Error::WebsocketError, and Error::IoError
UnexpectedOpcode == "unexpected opcode"

InvalidTextPayload == "expected payload to be ut8 encoded"

UnsupportedOpcode == "Unsupported opcode"

IoError == "io error"

\* b is a UTF-8 continuation byte 10xxxxxx
IsCont(b) == b >= 128 /\ b <= 191

\* the number of bytes of the well-formed UTF-8 sequence that starts s, or 0
\* when s starts with none: what std::str::from_utf8 accepts (no overlong
\* forms, no surrogates, nothing above U+10FFFF)
Utf8Head(s) ==
    LET n == Len(s)
        b1 == s[1]
    IN
    CASE b1 <= 127 -> 1
      [] b1 >= 194 /\ b1 <= 223 ->
            IF n >= 2 /\ IsCont(s[2]) THEN 2 ELSE 0
      [] b1 = 224 ->
            IF n >= 3 /\ s[2] >= 160 /\ s[2] <= 191 /\ IsCont(s[3]) THEN 3 ELSE 0
      [] (b1 >= 225 /\ b1 <= 236) \/ b1 = 238 \/ b1 = 239 ->
            IF n >= 3 /\ IsCont(s[2]) /\ IsCont(s[3]) THEN 3 ELSE 0
      [] b1 = 237 ->
            IF n >= 3 /\ s[2] >= 128 /\ s[2] <= 159 /\ IsCont(s[3]) THEN 3 ELSE 0
      [] b1 = 240 ->
            IF n >= 4 /\ s[2] >= 144 /\ s[2] <= 191 /\ IsCont(s[3]) /\ IsCont(s[4])
            THEN 4 ELSE 0
      [] b1 >= 241 /\ b1 <= 243 ->
            IF n >= 4 /\ IsCont(s[2]) /\ IsCont(s[3]) /\ IsCont(s[4]) THEN 4 ELSE 0
      [] b1 = 244 ->
            IF n >= 4 /\ s[2] >= 128 /\ s[2] <= 143 /\ IsCont(s[3]) /\ IsCont(s[4])
            THEN 4 ELSE 0
      [] OTHER -> 0

RECURSIVE from_utf8(_)
\* std::str::from_utf8(&data).is_ok()
from_utf8(s) ==
    IF s = <<>> THEN TRUE
    ELSE LET k == Utf8Head(s) IN
         IF k = 0 THEN FALSE ELSE from_utf8(Drop(s, k))

\* Message::from(data, opcode): [ok, msg, err]
MessageFrom(bytes, op) ==
    CASE op = 1 ->
            IF from_utf8(bytes)
            THEN [ok |-> TRUE, msg |-> Text(bytes), err |-> ""]
            ELSE [ok |-> FALSE, msg |-> NoMessage, err |-> InvalidTextPayload]
      [] op = 2 -> [ok |-> TRUE, msg |-> Binary(bytes), err |-> ""]
      [] OTHER -> [ok |-> FALSE, msg |-> NoMessage, err |-> UnsupportedOpcode]

(***************************************************************************)
(* IncompleteMessage: the message assembler.                               *)
(***************************************************************************)
\* a faulty accepts_opcode: a continuation frame is let through when nothing is accumulated
accepts_opcode_continuation_first(self, op) ==
    IF Len(self.bytes) = 0
    THEN op \in {0, 1, 2, 8, 9, 10}
    ELSE op = 0

accepts_opcode(self, op) ==
    IF Len(self.bytes) = 0
    THEN op \in {1, 2, 8, 9, 10}
    ELSE op = 0

\* what append_fragment() hands back: res is "err" (Err(err)), "none"
\* (Ok(None)) or "msg" (Ok(Some(msg))); self is the assembler afterwards
AsmResult(res, err, msg, self) ==
    [res |-> res, err |-> err, msg |-> msg, self |-> self]

\* a faulty append_fragment: the payload replaces what was accumulated instead of extending it
append_fragment_overwrites(self, fragment) ==
    IF ~accepts_opcode(self, opcode(fragment))
    THEN AsmResult("err", UnexpectedOpcode, NoMessage, self)
    ELSE
      LET op == IF Len(self.bytes) = 0 THEN opcode(fragment) ELSE self.opcode
          bytes == payload(fragment)
      IN
      IF ~is_fin(fragment)
      THEN AsmResult("none", "", NoMessage, [opcode |-> op, bytes |-> bytes])
      ELSE
        LET m == MessageFrom(bytes, op)
            after == [opcode |-> op, bytes |-> <<>>]
        IN IF m.ok THEN AsmResult("msg", "", m.msg, after)
           ELSE AsmResult("err", m.err, NoMessage, after)

\* a faulty append_fragment: the buffer is emptied only once the Message is made
append_fragment_keeps_failed_bytes(self, fragment) ==
    IF ~accepts_opcode(self, opcode(fragment))
    THEN AsmResult("err", UnexpectedOpcode, NoMessage, self)
    ELSE
      LET op == IF Len(self.bytes) = 0 THEN opcode(fragment) ELSE self.opcode
          bytes == self.bytes \o payload(fragment)
      IN
      IF ~is_fin(fragment)
      THEN AsmResult("none", "", NoMessage, [opcode |-> op, bytes |-> bytes])
      ELSE
        LET m == MessageFrom(bytes, op) IN
        IF m.ok THEN AsmResult("msg", "", m.msg, [opcode |-> op, bytes |-> <<>>])
        ELSE AsmResult("err", m.err, NoMessage, [opcode |-> op, bytes |-> bytes])

\* IncompleteMessage::append_fragment(&mut self, fragment)
append_fragment(self, fragment) ==
    IF ~accepts_opcode(self, opcode(fragment))
    THEN AsmResult("err", UnexpectedOpcode, NoMessage, self)
    ELSE
      LET op == IF Len(self.bytes) = 0 THEN opcode(fragment) ELSE self.opcode
          bytes == self.bytes \o payload(fragment)
      IN
      IF ~is_fin(fragment)
      THEN AsmResult("none", "", NoMessage, [opcode |-> op, bytes |-> bytes])
      ELSE
        \* std::mem::take empties self.bytes before Message::from runs
        LET m == MessageFrom(bytes, op)
            after == [opcode |-> op, bytes |-> <<>>]
        IN IF m.ok THEN AsmResult("msg", "", m.msg, after)
           ELSE AsmResult("err", m.err, NoMessage, after)

(***************************************************************************)
(* Websocket::send: the header and the two write loops.                    *)
(***************************************************************************)
\* let mut header = [0u8, 16];  an array literal of two elements
HEADER_LEN == 2

\* the header of send(), or a panic when a length slice (header[2..4],
\* header[2..10]) ends past the array
SendHeader(op, buf) ==
    LET byte0 == 128 + (op % 16)
        n == Len(buf)
    IN
    IF n < 126
    THEN [panic |-> FALSE, bytes |-> <<byte0, n % 128>>]
    ELSE IF n <= 65535
    THEN IF 4 > HEADER_LEN THEN [panic |-> TRUE, bytes |-> <<>>]
         ELSE [panic |-> FALSE, bytes |-> <<byte0, 126>> \o ToBeBytes(n, 2)]
    ELSE IF 10 > HEADER_LEN THEN [panic |-> TRUE, bytes |-> <<>>]
         ELSE [panic |-> FALSE, bytes |-> <<byte0, 127>> \o ToBeBytes(n, 8)]

(***************************************************************************)
(* The peer and the wire format (RFC 6455 framing as the spec lays it out):*)
(* what a client puts on the wire for a frame.                             *)
(***************************************************************************)
Frame(fin, op, masked, key, bytes) ==
    [fin |-> fin, opcode |-> op, masked |-> masked, key |-> key, payload |-> bytes]

EncodeFrame(f) ==
    LET n == Len(f.payload)
        m == IF f.masked THEN 128 ELSE 0
        byte0 == (IF f.fin THEN 128 ELSE 0) + f.opcode
        len == IF n < 126 THEN <<m + n>>
               ELSE IF n <= 65535 THEN <<m + 126>> \o ToBeBytes(n, 2)
               ELSE <<m + 127>> \o ToBeBytes(n, 8)
        body == IF f.masked
                THEN f.key \o [i \in 1..n |-> Xor8(f.payload[i], f.key[((i - 1) % 4) + 1])]
                ELSE f.payload
    IN <<byte0>> \o len \o body

\* a parsed fragment as the (fin, opcode, payload) it carries
FrameOf(fragment) ==
    [fin |-> is_fin(fragment), opcode |-> opcode(fragment), payload |-> payload(fragment)]

Plain(f) == [fin |-> f.fin, opcode |-> f.opcode, payload |-> f.payload]

(***************************************************************************)
(* Bounds and inputs of the session specification.                         *)
(***************************************************************************)
\* frames the peer sends in a run
MaxFrames == 2

\* let mut buffer = [0; 1024];
BUFFER_LEN == 1024

Key1 == <<55, 250, 33, 61>>

Long126 == [i \in 1..126 |-> 65]

Long65536 == [i \in 1..65536 |-> 65]

\* the frames a peer may send: data frames (whole, fragmented, not UTF-8,
\* unmasked), close frames of payload length 0, 1 and 2, pings (one of 126
\* bytes), a pong and a reserved control frame
PeerFrames ==
    { Frame(TRUE, 1, TRUE, Key1, <<65>>),
      Frame(FALSE, 1, TRUE, Key1, <<195>>),
      Frame(TRUE, 0, TRUE, Key1, <<169>>),
      Frame(TRUE, 1, TRUE, Key1, <<255>>),
      Frame(TRUE, 1, FALSE, <<>>, <<65>>),
      Frame(TRUE, 2, TRUE, Key1, <<3, 232>>),
      Frame(TRUE, 8, TRUE, Key1, <<>>),
      Frame(TRUE, 8, TRUE, Key1, <<3>>),
      Frame(TRUE, 8, TRUE, Key1, <<3, 232>>),
      Frame(TRUE, 9, TRUE, Key1, <<104>>),
      Frame(TRUE, 9, TRUE, Key1, Long126),
      Frame(TRUE, 10, TRUE, Key1, <<104>>),
      Frame(TRUE, 11, TRUE, Key1, <<104>>) }

\* arguments of send_text (valid UTF-8, it takes a &str) and of send_bytes
TextArgs == { <<>>, <<65>>, Long126 }

BytesArgs == { <<255>>, <<0, 128, 255>>, Long65536 }

CloseArgs == { None, 1000 }

Min(a, b) == IF a < b THEN a ELSE b

Ret(call, res, err, msgs) == [call |-> call, res |-> res, err |-> err, msgs |-> msgs]

NoRet == Ret("", "", "", <<>>)

NoIncompleteMessage == [opcode |-> 0, bytes |-> <<>>]

(***************************************************************************)
(* The session: Websocket<Connection>.                                     *)
(***************************************************************************)
\* impl From<Connection> for Websocket: the state after the upgrade
Init ==
    /\ closed = FALSE
    /\ incomplete_fragment = <<>>
    /\ incomplete_message = NoIncompleteMessage
    /\ pc = "idle"
    /\ panic = "none"
    /\ received = <<>>
    /\ messages = <<>>
    /\ hdr = <<>>
    /\ data = <<>>
    /\ sender = ""
    /\ wire = <<>>
    /\ out = <<>>
    /\ ret = NoRet
    /\ rxFrame = NoFragment
    /\ sends = <<>>
    /\ sent = <<>>
    /\ parts = <<>>
    /\ frames = <<>>
    /\ ioFailed = FALSE
    /\ closeSeen = FALSE
    /\ writeTick = FALSE
    /\ handler = ""
    /\ todo = <<>>

unitVars == <<parts, frames, handler, todo>>

histVars == <<unitVars, closeSeen, writeTick>>

\* the peer puts one more frame on the wire.  The wire is a FIFO that only
\* the transport read looks at, and a read may take any non-empty prefix of
\* it, so frames that arrive later add no behaviour: the peer sends first.
PeerSend(f) ==
    /\ pc = "idle"
    /\ ret = NoRet
    /\ Len(sent) < MaxFrames
    \* a frame that needs an extended length field is the first of the run
    /\ Len(f.payload) >= 126 => sent = <<>>
    /\ wire' = wire \o EncodeFrame(f)
    /\ sent' = Append(sent, f)
    /\ UNCHANGED <<closed, incomplete_fragment, incomplete_message, pc, panic,
                   received, messages, hdr, data, sender, out, ret, rxFrame,
                   sends, ioFailed, histVars>>

\* read(): self.connection.read(&mut buffer) returns Ok(n), n > 0
read_ok(n) ==
    /\ pc = "idle"
    /\ n \in 1..Min(Len(wire), BUFFER_LEN)
    /\ received' = Take(wire, n)
    /\ wire' = Drop(wire, n)
    /\ messages' = <<>>
    /\ pc' = "read_loop"
    /\ rxFrame' = NoFragment
    /\ ret' = NoRet
    /\ out' = <<>>
    /\ sends' = <<>>
    /\ ioFailed' = FALSE
    /\ UNCHANGED <<closed, incomplete_fragment, incomplete_message, panic, hdr,
                   data, sender, sent, histVars>>

\* a faulty read(): WouldBlock is returned to the caller like any other failure
read_would_block_is_error ==
    /\ pc = "idle"
    /\ ret' = Ret("read", "err", IoError, <<>>)
    /\ rxFrame' = NoFragment
    /\ out' = <<>>
    /\ sends' = <<>>
    /\ ioFailed' = FALSE
    /\ UNCHANGED <<closed, incomplete_fragment, incomplete_message, pc, panic,
                   received, messages, hdr, data, sender, wire, sent, histVars>>

\* read(): the transport read reports WouldBlock (or end of stream, Ok(0)):
\* nread is 0, the loop is not entered, Ok(empty) is returned
read_would_block ==
    /\ pc = "idle"
    /\ ret' = Ret("read", "ok", "", <<>>)
    /\ rxFrame' = NoFragment
    /\ out' = <<>>
    /\ sends' = <<>>
    /\ ioFailed' = FALSE
    /\ UNCHANGED <<closed, incomplete_fragment, incomplete_message, pc, panic,
                   received, messages, hdr, data, sender, wire, sent, histVars>>

\* read(): any other failure of the transport read is returned as IoError
read_error ==
    /\ pc = "idle"
    /\ ret' = Ret("read", "err", IoError, <<>>)
    /\ rxFrame' = NoFragment
    /\ out' = <<>>
    /\ sends' = <<>>
    /\ ioFailed' = FALSE
    /\ UNCHANGED <<closed, incomplete_fragment, incomplete_message, pc, panic,
                   received, messages, hdr, data, sender, wire, sent, histVars>>

\* one pass of read()'s loop: self.incomplete_fragment.append(&mut received)
Parsed == append(incomplete_fragment, received)

InLoop == pc = "read_loop" /\ received # <<>>

\* append() panics: the thread unwinds
ParsePanics ==
    /\ InLoop
    /\ Parsed.res = "panic"
    /\ pc' = "panicked"
    /\ panic' = Parsed.why
    /\ incomplete_fragment' = Parsed.self
    /\ received' = Parsed.rest
    \* at the assert! of line 269 the buffer holds a whole frame of payload length 0
    /\ rxFrame' = IF Parsed.why = "assert_269"
                  THEN [bytes |-> Parsed.self, payload_offset |-> Len(Parsed.self)]
                  ELSE NoFragment
    /\ UNCHANGED <<closed, incomplete_message, messages, hdr, data, sender, wire,
                   out, ret, sends, sent, ioFailed, histVars>>

\* append() returns Ok(None): the input is used up
ParseIncomplete ==
    /\ InLoop
    /\ Parsed.res = "none"
    /\ incomplete_fragment' = Parsed.self
    /\ received' = Parsed.rest
    /\ rxFrame' = NoFragment
    /\ UNCHANGED <<closed, incomplete_message, pc, panic, messages, hdr, data,
                   sender, wire, out, ret, sends, sent, ioFailed, histVars>>

\* send(opcode, data) up to its first write: the header, or the panic
StartSend(who, op, buf) ==
    LET h == SendHeader(op, buf) IN
    /\ sends' = Append(IF who = "read" THEN sends ELSE <<>>,
                        [opcode |-> op, payload |-> buf])
    /\ sender' = who
    /\ IF h.panic
       THEN /\ pc' = "panicked"
            /\ panic' = "send_header"
            /\ hdr' = <<>>
            /\ data' = <<>>
       ELSE /\ pc' = "send"
            /\ panic' = panic
            /\ hdr' = h.bytes
            /\ data' = buf

\* a close frame: Close(code) is pushed, closed is set, the loop is left
HandleClose ==
    /\ InLoop
    /\ Parsed.res = "some"
    /\ is_control_frame(Parsed.fragment)
    /\ opcode(Parsed.fragment) = 8
    /\ LET p == payload(Parsed.fragment)
           msg == IF Len(p) >= 2 THEN Close(FromBeBytes(Take(p, 2))) ELSE Close(None)
       IN ret' = Ret("read", "ok", "", Append(messages, msg))
    /\ closed' = TRUE
    /\ pc' = "idle"
    /\ incomplete_fragment' = Parsed.self
    /\ received' = <<>>
    /\ messages' = <<>>
    /\ rxFrame' = Parsed.fragment
    /\ closeSeen' = TRUE
    /\ UNCHANGED <<incomplete_message, panic, hdr, data, sender, wire, out,
                   sends, sent, ioFailed, unitVars, writeTick>>

\* a ping frame: self.send(0xA, fragment.payload())?
HandlePing ==
    /\ InLoop
    /\ Parsed.res = "some"
    /\ is_control_frame(Parsed.fragment)
    /\ opcode(Parsed.fragment) = 9
    /\ StartSend("read", 10, payload(Parsed.fragment))
    /\ incomplete_fragment' = Parsed.self
    /\ received' = Parsed.rest
    /\ rxFrame' = Parsed.fragment
    /\ UNCHANGED <<closed, incomplete_message, messages, wire, out, ret, sent,
                   ioFailed, histVars>>

\* a faulty control branch: any other control frame ends read() with an error
IgnoreControl_is_error ==
    /\ InLoop
    /\ Parsed.res = "some"
    /\ is_control_frame(Parsed.fragment)
    /\ opcode(Parsed.fragment) \notin {8, 9}
    /\ incomplete_fragment' = Parsed.self
    /\ received' = <<>>
    /\ messages' = <<>>
    /\ rxFrame' = Parsed.fragment
    /\ ret' = Ret("read", "err", UnsupportedOpcode, <<>>)
    /\ pc' = "idle"
    /\ UNCHANGED <<closed, incomplete_message, panic, hdr, data, sender, wire,
                   out, sends, sent, ioFailed, histVars>>

\* any other control frame: nothing is done
IgnoreControl ==
    /\ InLoop
    /\ Parsed.res = "some"
    /\ is_control_frame(Parsed.fragment)
    /\ opcode(Parsed.fragment) \notin {8, 9}
    /\ incomplete_fragment' = Parsed.self
    /\ received' = Parsed.rest
    /\ rxFrame' = Parsed.fragment
    /\ UNCHANGED <<closed, incomplete_message, pc, panic, messages, hdr, data,
                   sender, wire, out, ret, sends, sent, ioFailed, histVars>>

\* a faulty data-frame branch: the assembler's error is dropped and the loop
\* goes on with the rest of the buffer
HandleData_swallows_error ==
    /\ InLoop
    /\ Parsed.res = "some"
    /\ ~is_control_frame(Parsed.fragment)
    /\ LET a == append_fragment(incomplete_message, Parsed.fragment) IN
       /\ incomplete_message' = a.self
       /\ messages' = IF a.res = "msg" THEN Append(messages, a.msg) ELSE messages
    /\ received' = Parsed.rest
    /\ incomplete_fragment' = Parsed.self
    /\ rxFrame' = Parsed.fragment
    /\ UNCHANGED <<closed, pc, ret, panic, hdr, data, sender, wire, out, sends,
                   sent, ioFailed, histVars>>

\* a data frame: self.incomplete_message.append_fragment(fragment)?
HandleData ==
    /\ InLoop
    /\ Parsed.res = "some"
    /\ ~is_control_frame(Parsed.fragment)
    /\ LET a == append_fragment(incomplete_message, Parsed.fragment) IN
       /\ incomplete_message' = a.self
       /\ IF a.res = "err"
          THEN /\ ret' = Ret("read", "err", a.err, <<>>)
               /\ pc' = "idle"
               /\ received' = <<>>
               /\ messages' = <<>>
          ELSE /\ ret' = ret
               /\ pc' = pc
               /\ received' = Parsed.rest
               /\ messages' = IF a.res = "msg" THEN Append(messages, a.msg)
                              ELSE messages
    /\ incomplete_fragment' = Parsed.self
    /\ rxFrame' = Parsed.fragment
    /\ UNCHANGED <<closed, panic, hdr, data, sender, wire, out, sends, sent,
                   ioFailed, histVars>>

\* received.len() == 0: return Ok(messages)
ReadReturn ==
    /\ pc = "read_loop"
    /\ received = <<>>
    /\ ret' = Ret("read", "ok", "", messages)
    /\ pc' = "idle"
    /\ messages' = <<>>
    /\ UNCHANGED <<closed, incomplete_fragment, incomplete_message, panic,
                   received, hdr, data, sender, wire, out, rxFrame, sends, sent,
                   ioFailed, histVars>>

\* send() has written everything: Ok(()) goes to its caller (read() goes on
\* with its loop, the other callers return it)
SendDone(h, d) ==
    IF h = <<>> /\ d = <<>>
    THEN /\ sender' = ""
         /\ IF sender = "read"
            THEN pc' = "read_loop" /\ ret' = ret
            ELSE pc' = "idle" /\ ret' = Ret(sender, "ok", "", <<>>)
    ELSE pc' = pc /\ ret' = ret /\ sender' = sender

\* send(): self.connection.write(hdr) accepts k bytes
WriteHeader(k) ==
    /\ pc = "send"
    /\ hdr # <<>>
    /\ k \in 0..Len(hdr)
    /\ out' = out \o Take(hdr, k)
    /\ hdr' = Drop(hdr, k)
    /\ SendDone(hdr', data)
    \* a write that takes no byte is a call all the same
    /\ writeTick' = (k = 0 /\ ~writeTick)
    /\ UNCHANGED <<closed, incomplete_fragment, incomplete_message, panic,
                   received, messages, data, wire, rxFrame, sends, sent,
                   ioFailed, unitVars, closeSeen>>

\* send(): self.connection.write(data) accepts k bytes
WritePayload(k) ==
    /\ pc = "send"
    /\ hdr = <<>>
    /\ data # <<>>
    /\ k \in 0..Len(data)
    /\ out' = out \o Take(data, k)
    /\ data' = Drop(data, k)
    /\ SendDone(hdr, data')
    \* a write that takes no byte is a call all the same
    /\ writeTick' = (k = 0 /\ ~writeTick)
    /\ UNCHANGED <<closed, incomplete_fragment, incomplete_message, panic,
                   received, messages, hdr, wire, rxFrame, sends, sent,
                   ioFailed, unitVars, closeSeen>>

\* send(): a write fails; the ? returns IoError from send() and from its caller
WriteFails ==
    /\ pc = "send"
    /\ ioFailed' = TRUE
    /\ ret' = Ret(IF sender = "read" THEN "read" ELSE sender, "err", IoError, <<>>)
    /\ pc' = "idle"
    /\ hdr' = <<>>
    /\ data' = <<>>
    /\ received' = <<>>
    /\ messages' = <<>>
    /\ sender' = ""
    /\ writeTick' = FALSE
    /\ UNCHANGED <<closed, incomplete_fragment, incomplete_message, panic,
                   wire, out, rxFrame, sends, sent, unitVars, closeSeen>>

send_text(t) ==
    /\ pc = "idle"
    /\ StartSend("send_text", 1, t)
    /\ rxFrame' = NoFragment
    /\ ret' = NoRet
    /\ out' = <<>>
    /\ ioFailed' = FALSE
    /\ UNCHANGED <<closed, incomplete_fragment, incomplete_message, received,
                   messages, wire, sent, histVars>>

\* (send() reads nothing of the session: the argument that needs the 8-byte
\* length field is tried on the fresh session only)
send_bytes(b) ==
    /\ pc = "idle"
    /\ Len(b) > 65535 => (ret = NoRet /\ sent = <<>>)
    /\ StartSend("send_bytes", 2, b)
    /\ rxFrame' = NoFragment
    /\ ret' = NoRet
    /\ out' = <<>>
    /\ ioFailed' = FALSE
    /\ UNCHANGED <<closed, incomplete_fragment, incomplete_message, received,
                   messages, wire, sent, histVars>>

\* a faulty close(): the frame is sent, the flag is left as it was
close_leaves_flag(code) ==
    /\ pc = "idle"
    /\ closed' = closed
    /\ StartSend("close", 8, IF code = None THEN <<>> ELSE ToBeBytes(code, 2))
    /\ rxFrame' = NoFragment
    /\ ret' = NoRet
    /\ out' = <<>>
    /\ ioFailed' = FALSE
    /\ closeSeen' = TRUE
    /\ UNCHANGED <<incomplete_fragment, incomplete_message, received, messages,
                   wire, sent, unitVars, writeTick>>

close(code) ==
    /\ pc = "idle"
    /\ closed' = TRUE
    /\ StartSend("close", 8, IF code = None THEN <<>> ELSE ToBeBytes(code, 2))
    /\ rxFrame' = NoFragment
    /\ ret' = NoRet
    /\ out' = <<>>
    /\ ioFailed' = FALSE
    /\ closeSeen' = TRUE
    /\ UNCHANGED <<incomplete_fragment, incomplete_message, received, messages,
                   wire, sent, unitVars, writeTick>>

Next ==
    \/ \E f \in PeerFrames : PeerSend(f)
    \/ \E n \in 1..Min(Len(wire), BUFFER_LEN) : read_ok(n)
    \/ read_would_block
    \/ read_error
    \/ ParsePanics
    \/ ParseIncomplete
    \/ HandleClose
    \/ HandlePing
    \/ IgnoreControl
    \/ HandleData
    \/ ReadReturn
    \/ \E k \in 0..Len(hdr) : WriteHeader(k)
    \/ \E k \in 0..Len(data) : WritePayload(k)
    \/ WriteFails
    \/ \E t \in TextArgs : send_text(t)
    \/ \E b \in BytesArgs : send_bytes(b)
    \/ \E c \in CloseArgs : close(c)

Spec == Init /\ [][Next]_vars

(***************************************************************************)
(* Claims about the session (specification Spec).                          *)
(***************************************************************************)
\* the frame send(opcode, payload) is to put on the wire: fin = 1, unmasked,
\* the three-tier length, the payload unchanged
ExpectedFrame(s) == EncodeFrame(Frame(TRUE, s.opcode % 16, FALSE, <<>>, s.payload))

RECURSIVE ExpectedOut(_)
ExpectedOut(ss) ==
    IF ss = <<>> THEN <<>>
    ELSE ExpectedOut(SubSeq(ss, 1, Len(ss) - 1)) \o ExpectedFrame(ss[Len(ss)])

\* C2: for every opcode and payload length and any pattern of short writes,
\* once send(opcode, payload) is over (no write having failed) the transport
\* holds exactly one frame per send: 0x80 | opcode, the length in its tier,
\* mask bit clear, then the payload bytes, each once and in order.
C2_SendWritesOneFrame ==
    (pc # "send" /\ ~ioFailed) => out = ExpectedOut(sends)

\* C4: when read() receives a complete close frame of payload length L, the
\* read result ends with Close(Some(code)) if L >= 2 (code: the first two
\* payload bytes, big-endian) and with Close(None) if L < 2, closed is set,
\* and read() returns there: nothing after the frame is processed.
C4_CloseFrameEndsRead ==
    (rxFrame # NoFragment /\ opcode(rxFrame) = 8) =>
        /\ panic = "none"
        /\ closed
        /\ pc = "idle"
        /\ ret.call = "read"
        /\ ret.res = "ok"
        /\ ret.msgs # <<>>
        /\ ret.msgs[Len(ret.msgs)] =
              (IF Len(payload(rxFrame)) >= 2
               THEN Close(FromBeBytes(Take(payload(rxFrame), 2)))
               ELSE Close(None))
        /\ out = ExpectedOut(sends)

\* C5: for every ping completed during read() the session writes, before it
\* goes on with the buffer and before read() returns, one pong frame (fin = 1,
\* opcode 0xA, unmasked) with the ping's payload.  While the ping is the last
\* frame completed (no write having failed): the last send() is that pong;
\* the session is inside that send() with exactly the rest of the pong left
\* to write, or it is back in the loop, or read() has returned Ok, with the
\* whole pong on the transport.
C5_PingIsAnsweredByPong ==
    (rxFrame # NoFragment /\ opcode(rxFrame) = 9 /\ ~ioFailed) =>
        /\ panic = "none"
        /\ sends # <<>>
        /\ sends[Len(sends)] = [opcode |-> 10, payload |-> payload(rxFrame)]
        /\ pc \in {"send", "read_loop", "idle"}
        /\ pc = "send" => out \o hdr \o data = ExpectedOut(sends)
        /\ pc # "send" => out = ExpectedOut(sends)
        /\ pc = "idle" => (ret.call = "read" /\ ret.res = "ok")

\* C10: an incoming frame whose mask bit is clear is a protocol violation:
\* read() returns an error for it and builds no Message (and no pong) from it.
C10_UnmaskedFrameRejected ==
    (rxFrame # NoFragment /\ ~is_masked(rxFrame.bytes)) =>
        /\ pc = "idle"
        /\ ret.call = "read"
        /\ ret.res = "err"
        /\ sends = <<>>

\* C13: when the transport read reports would-block, read() returns Ok with
\* an empty message list, writes nothing, and leaves the partial-frame state,
\* the partial-message state and closed as they were; any other failure of
\* the transport read makes read() return IoError, those three unchanged too.
C13_ReadFailureLeavesState ==
    [][ /\ read_would_block =>
              /\ ret' = Ret("read", "ok", "", <<>>)
              /\ pc' = "idle"
              /\ out' = <<>> /\ sends' = <<>>
              /\ UNCHANGED <<incomplete_fragment, incomplete_message, closed>>
        /\ read_error =>
              /\ ret' = Ret("read", "err", IoError, <<>>)
              /\ pc' = "idle"
              /\ out' = <<>> /\ sends' = <<>>
              /\ UNCHANGED <<incomplete_fragment, incomplete_message, closed>>
      ]_vars

\* read() has returned IoError without a write having failed or been tried:
\* its transport read failed, while a frame and a message were both half
\* received and closed was set
C13_Witness ==
    /\ pc = "idle"
    /\ ret = Ret("read", "err", IoError, <<>>)
    /\ ~ioFailed
    /\ sends = <<>>
    /\ incomplete_fragment # <<>>
    /\ incomplete_message.bytes # <<>>
    /\ closed

\* C14: in every reachable state of a session closed is true if and only if
\* a close frame has been received by read() or close() has been called since
\* the upgrade (so it is false right after the upgrade), and no step of a
\* read, send_text, send_bytes or close call, successful or failing, turns
\* it from true back to false.
C14_ClosedIffCloseSeen ==
    /\ [](closed = closeSeen)
    /\ [][closed => closed']_vars

\* closed was set and a later call has failed: it is still set
C14_Witness ==
    /\ closed
    /\ closeSeen
    /\ pc = "idle"
    /\ ret = Ret("send_text", "err", IoError, <<>>)

\* C15: a control frame with opcode 0xA or 0xB-0xF completed during read()
\* has no effect: it adds no Message, raises no error, causes no write, leaves
\* closed and the partial-message state unchanged, and read() goes on with
\* the next frame of the buffer.
C15_OtherControlFramesIgnored ==
    [][ ( /\ InLoop
          /\ Parsed.res = "some"
          /\ opcode(Parsed.fragment) \in 10..15 )
        =>
        /\ rxFrame' = Parsed.fragment
        /\ pc' = "read_loop"
        /\ received' = Parsed.rest
        /\ panic' = "none"
        /\ UNCHANGED <<messages, ret, out, sends, hdr, data, closed,
                       incomplete_message, ioFailed, wire>>
      ]_vars

\* a reserved control frame (0xB) has been passed over and read() is about to
\* parse the frame after it
C15_Witness ==
    /\ pc = "read_loop"
    /\ panic = "none"
    /\ rxFrame # NoFragment
    /\ opcode(rxFrame) = 11
    /\ received # <<>>
    /\ messages = <<>>
    /\ out = <<>>
    /\ ret = NoRet

ProtocolErrors == { UnexpectedOpcode, InvalidTextPayload, UnsupportedOpcode }

\* C12: when the assembler rejects a frame during read(), read() returns that
\* protocol error at once: the rest of the buffer is dropped unprocessed, so
\* no later frame of it yields a message, a pong or a change of closed.
C12_AssemblerErrorEndsRead ==
    [][ ( /\ InLoop
          /\ Parsed.res = "some"
          /\ ~is_control_frame(Parsed.fragment)
          /\ append_fragment(incomplete_message, Parsed.fragment).res = "err" )
        =>
        /\ pc' = "idle"
        /\ ret' = Ret("read", "err",
                      append_fragment(incomplete_message, Parsed.fragment).err, <<>>)
        /\ ret'.err \in ProtocolErrors
        /\ rxFrame' = Parsed.fragment
        /\ received' = <<>>
        /\ messages' = <<>>
        /\ closed' = closed
        /\ sends' = sends
        /\ out' = out
        /\ wire' = wire
      ]_vars

\* read() has returned the error for a continuation frame that came first in
\* a buffer holding a whole ping after it: no pong was sent
C12_Witness ==
    /\ pc = "idle"
    /\ ret = Ret("read", "err", UnexpectedOpcode, <<>>)
    /\ Len(sent) = 2
    /\ sent[2].opcode = 9
    /\ wire = <<>>
    /\ rxFrame # NoFragment
    /\ opcode(rxFrame) = 0
    /\ incomplete_fragment = <<>>
    /\ sends = <<>>
    /\ out = <<>>
    /\ ~closed

\* C22: no completed Message is lost: whenever read() returns, the Messages
\* append_fragment has yielded during that call are in the value it returns,
\* in order, whatever frames followed them in the buffer (a frame that is
\* rejected, a ping whose pong cannot be written).
C22_NoCompletedMessageLost ==
    [][ ( /\ pc \in {"read_loop", "send"}
          /\ pc' = "idle"
          /\ ret'.call = "read" )
        => /\ Len(ret'.msgs) >= Len(messages)
           /\ SubSeq(ret'.msgs, 1, Len(messages)) = messages ]_vars

\* C23: every read() call terminates whatever bytes were received: each pass
\* of its frame loop either emits a frame, having consumed at least one byte
\* of the buffer, or returns none with nothing left of the input slice, so
\* the loop runs at most once per byte received.  A pass is a step taken
\* inside the loop with input left; the call of append() it makes does one
\* or the other, and the thread is not unwound.
C23_EachPassMakesProgress ==
    [][ InLoop =>
          /\ \/ Parsed.res = "some" /\ Len(Parsed.rest) < Len(received)
             \/ Parsed.res = "none" /\ Parsed.rest = <<>>
          /\ pc' # "panicked" ]_vars

(***************************************************************************)
(* The send path on its own (specification SendSpec): send_text, send_bytes *)
(* and close are called on a session, and the thread that is inside send()  *)
(* keeps running: its next call of write happens, whatever write returns.   *)
(***************************************************************************)
WriteStep ==
    \/ \E k \in 0..Len(hdr) : WriteHeader(k)
    \/ \E k \in 0..Len(data) : WritePayload(k)
    \/ WriteFails

SendNext ==
    \/ \E t \in TextArgs : send_text(t)
    \/ \E b \in BytesArgs : send_bytes(b)
    \/ \E c \in CloseArgs : close(c)
    \/ WriteStep

SendSpec == Init /\ [][SendNext]_vars /\ WF_vars(WriteStep)

\* C16: every call of send (and so of send_text, send_bytes and close)
\* eventually returns, with Ok after the whole frame is written or with
\* IoError at the first failing write, whatever the transport does within
\* the write interface (each write fails or takes 0..n of the n bytes offered).
C16_SendReturns == (pc = "send") ~> (pc = "idle" /\ ret.res \in {"ok", "err"})

(***************************************************************************)
(* The connection handler handle_ws (specification HandlerSpec): it owns    *)
(* the session and calls read(), send_text(), send_bytes() and close() on   *)
(* it.  A step of the handler that precedes a call clears ret; the call has *)
(* returned when the session is idle again with ret set.                    *)
(***************************************************************************)
HandlerInit ==
    /\ closed = FALSE
    /\ incomplete_fragment = <<>>
    /\ incomplete_message = NoIncompleteMessage
    /\ pc = "idle"
    /\ panic = "none"
    /\ received = <<>>
    /\ messages = <<>>
    /\ hdr = <<>>
    /\ data = <<>>
    /\ sender = ""
    /\ wire = <<>>
    /\ out = <<>>
    /\ ret = NoRet
    /\ rxFrame = NoFragment
    /\ sends = <<>>
    /\ sent = <<>>
    /\ parts = <<>>
    /\ frames = <<>>
    /\ ioFailed = FALSE
    /\ closeSeen = FALSE
    /\ writeTick = FALSE
    /\ handler = "loop"
    /\ todo = <<>>

\* what a step of the handler between two calls leaves alone
sessionState == <<closed, incomplete_fragment, incomplete_message, pc, panic,
                  received, messages, hdr, data, sender, wire, out, rxFrame,
                  sends, sent, parts, frames, ioFailed, closeSeen, writeTick>>

Returned(call) == pc = "idle" /\ ret.call = call

\* while !socket.closed: the loop is left
WhileClosed ==
    /\ handler = "loop"
    /\ closed
    /\ handler' = "done"
    /\ UNCHANGED <<sessionState, ret, todo>>

\* a faulty loop head: read() is called whatever the closed flag says
CallRead_whatever_closed ==
    /\ handler = "loop"
    /\ pc = "idle"
    /\ handler' = "read"
    /\ ret' = NoRet
    /\ UNCHANGED <<sessionState, todo>>

\* while !socket.closed: socket.read() is about to be called
CallRead ==
    /\ handler = "loop"
    /\ ~closed
    /\ pc = "idle"
    /\ handler' = "read"
    /\ ret' = NoRet
    /\ UNCHANGED <<sessionState, todo>>

\* match socket.read(): Ok(messages), Err(IoError) (logged, no messages),
\* Err(WebsocketError) (close(Some(1002)) is about to be called)
GotRead ==
    /\ handler = "read"
    /\ Returned("read")
    /\ IF ret.res = "err" /\ ret.err # IoError
       THEN /\ handler' = "close_err"
            /\ todo' = <<>>
            /\ ret' = NoRet
       ELSE /\ handler' = "echo"
            /\ todo' = ret.msgs
            /\ ret' = ret
    /\ UNCHANGED sessionState

\* for message in &messages: the next message, or the end of the list
Echo ==
    /\ handler = "echo"
    /\ IF todo = <<>>
       THEN handler' = "loop" /\ ret' = ret
       ELSE /\ handler' = IF todo[1].kind = "Close" THEN "close_msg" ELSE "send"
            /\ ret' = NoRet
    /\ UNCHANGED <<sessionState, todo>>

\* socket.send_text(&text) / socket.send_bytes(&binary) is called
CallSend ==
    /\ handler = "send"
    /\ ret = NoRet
    /\ IF todo[1].kind = "Text" THEN send_text(todo[1].data)
       ELSE send_bytes(todo[1].data)

\* .unwrap() on the result of the send
SendReturned ==
    /\ handler = "send"
    /\ pc = "idle"
    /\ ret # NoRet
    /\ IF ret.res = "err"
       THEN handler' = "panicked" /\ todo' = todo
       ELSE handler' = "echo" /\ todo' = Tail(todo)
    /\ UNCHANGED <<sessionState, ret>>

\* socket.close(*code) for a Close message, socket.close(Some(1002)) after a
\* protocol error
CallClose ==
    /\ handler \in {"close_msg", "close_err"}
    /\ ret = NoRet
    /\ close(IF handler = "close_err" THEN 1002 ELSE todo[1].code)

\* .ok() on the result of close(): break out of the for loop, or return
CloseReturned ==
    /\ handler \in {"close_msg", "close_err"}
    /\ Returned("close")
    /\ handler' = IF handler = "close_err" THEN "done" ELSE "loop"
    /\ todo' = <<>>
    /\ UNCHANGED <<sessionState, ret>>

\* the transport read inside socket.read()
TransportRead ==
    /\ handler = "read"
    /\ ret = NoRet
    /\ \/ \E n \in 1..Min(Len(wire), BUFFER_LEN) : read_ok(n)
       \/ read_would_block
       \/ read_error

HandlerNext ==
    \/ \E f \in PeerFrames : handler = "loop" /\ PeerSend(f)
    \/ WhileClosed
    \/ CallRead
    \/ TransportRead
    \/ ParsePanics
    \/ ParseIncomplete
    \/ HandleClose
    \/ HandlePing
    \/ IgnoreControl
    \/ HandleData
    \/ ReadReturn
    \/ WriteStep
    \/ GotRead
    \/ Echo
    \/ CallSend
    \/ SendReturned
    \/ CallClose
    \/ CloseReturned

\* the handler's thread keeps running: a call to close() that is due is made,
\* the writes inside it are attempted, and its return is acted on
HandlerSpec ==
    /\ HandlerInit
    /\ [][HandlerNext]_vars
    /\ WF_vars(CallClose)
    /\ WF_vars(WriteStep)
    /\ WF_vars(CloseReturned)

\* the close frame with status 1002
Close1002 == [opcode |-> 8, payload |-> <<3, 234>>]

\* C18: whenever read() returns a protocol error to handle_ws, the handler
\* sends one close frame carrying the status code 1002, issues no further
\* read and no data send, and terminates handling of the connection.
\* The part about what the handler does: its next call is close(Some(1002)),
\* nothing else is called, and when that call returns it returns for good.
C18_OnlyCloses1002 ==
    /\ [][ ( /\ handler = "read"
             /\ Returned("read")
             /\ ret.res = "err"
             /\ ret.err \in ProtocolErrors
             /\ handler' # handler )
           => handler' = "close_err" ]_vars
    /\ [][ handler = "close_err" =>
             /\ handler' \in {"close_err", "done"}
             /\ sends' = sends \/ sends' = <<Close1002>>
             /\ sender' \in {"", "close"}
             /\ UNCHANGED <<wire, received, messages, incomplete_fragment,
                            incomplete_message>> ]_vars
    /\ [][ (handler = "close_err" /\ handler' = "done") =>
             /\ Returned("close")
             /\ sends = <<Close1002>>
             /\ ret.res = "ok" => out = <<136, 2, 3, 234>> ]_vars
    /\ [][ handler = "done" => UNCHANGED vars ]_vars

\* C18, the part about termination: once read() has returned a protocol
\* error to handle_ws, the handler comes to return.
C18_ProtocolErrorTerminates == (handler = "close_err") ~> (handler = "done")

\* C19: whenever read() returns IoError to handle_ws, the handler does not
\* retry: it calls read() no more on that session (and its handling of the
\* connection comes to an end).  While the last thing read() returned is
\* IoError, the handler does not go on to call read().
C19_NoReadAfterIoError ==
    [][ ~( /\ handler = "loop"
           /\ ret = Ret("read", "err", IoError, <<>>)
           /\ handler' = "read" ) ]_vars

\* the handler's last call on the session is close(): the close frame is the
\* one frame of that call
CloseCalled == Len(sends) = 1 /\ sends[1].opcode = 8 /\ ret.call # "read"

\* C25: once handle_ws has sent a close frame on a session it performs no
\* further transport I/O on it: no other frame is written and read() is not
\* called again.  From the call of close() on, every step leaves the frames
\* sent, the bytes to read and the read state as they are, the handler makes
\* no other call, the only bytes written are those of the close frame, and
\* once close() has returned nothing is written at all.
C25_NoIoAfterClose ==
    [][ CloseCalled =>
          /\ CloseCalled'
          /\ sends' = sends
          /\ UNCHANGED <<wire, received, messages, incomplete_fragment,
                         incomplete_message, closed>>
          /\ closed
          /\ handler \in {"close_msg", "close_err", "loop", "done"}
          /\ handler' \in {"close_msg", "close_err", "loop", "done"}
          /\ pc = "send" =>
                \/ out' \o hdr' \o data' = out \o hdr \o data
                \/ out' = out /\ pc' = "idle" /\ ret'.res = "err"
          /\ pc = "idle" => UNCHANGED <<out, pc, ret, hdr, data>> ]_vars

\* the peer's close frame with status 1000 was answered with a close frame of
\* the same status and the handler has left its loop
C25_Witness ==
    /\ handler = "done"
    /\ CloseCalled
    /\ closed
    /\ ret = Ret("close", "ok", "", <<>>)
    /\ sends = <<[opcode |-> 8, payload |-> <<3, 232>>]>>
    /\ out = <<136, 2, 3, 232>>

(***************************************************************************)
(* A fragmented message with a control frame in between (specification      *)
(* InterleavedSpec): the peer has sent the first fragment of a message,     *)
(* then a control frame or none, then the final fragment, and the session   *)
(* reads them in chunks of any size.                                        *)
(***************************************************************************)
FirstFragments ==
    { Frame(FALSE, 1, TRUE, Key1, <<195>>),
      Frame(FALSE, 2, TRUE, Key1, <<3>>) }

InterleavedFrames ==
    { Frame(TRUE, 8, TRUE, Key1, <<3, 232>>),
      Frame(TRUE, 9, TRUE, Key1, <<104>>),
      Frame(TRUE, 10, TRUE, Key1, <<104>>),
      Frame(TRUE, 11, TRUE, Key1, <<104>>) }

LastFragments ==
    { Frame(TRUE, 0, TRUE, Key1, <<169>>),
      Frame(TRUE, 0, TRUE, Key1, <<65>>) }

InterleavedRuns ==
    { <<a, b>> : a \in FirstFragments, b \in LastFragments }
    \cup { <<a, c, b>> : a \in FirstFragments, c \in InterleavedFrames,
                         b \in LastFragments }

RECURSIVE EncodeFrames(_)
EncodeFrames(fs) ==
    IF fs = <<>> THEN <<>> ELSE EncodeFrame(Head(fs)) \o EncodeFrames(Tail(fs))

InterleavedInit ==
    /\ closed = FALSE
    /\ incomplete_fragment = <<>>
    /\ incomplete_message = NoIncompleteMessage
    /\ pc = "idle"
    /\ panic = "none"
    /\ received = <<>>
    /\ messages = <<>>
    /\ hdr = <<>>
    /\ data = <<>>
    /\ sender = ""
    /\ sent \in InterleavedRuns
    /\ wire = EncodeFrames(sent)
    /\ out = <<>>
    /\ ret = NoRet
    /\ rxFrame = NoFragment
    /\ sends = <<>>
    /\ parts = <<>>
    /\ frames = <<>>
    /\ ioFailed = FALSE
    /\ closeSeen = FALSE
    /\ writeTick = FALSE
    /\ handler = ""
    /\ todo = <<>>

InterleavedNext ==
    \/ \E n \in 1..Min(Len(wire), BUFFER_LEN) : read_ok(n)
    \/ read_would_block
    \/ read_error
    \/ ParsePanics
    \/ ParseIncomplete
    \/ HandleClose
    \/ HandlePing
    \/ IgnoreControl
    \/ HandleData
    \/ ReadReturn
    \/ WriteStep

InterleavedSpec == InterleavedInit /\ [][InterleavedNext]_vars

\* the data fragments among the frames the peer sent
DataFrames == SelectSeq(sent, LAMBDA f : f.opcode < 8)

\* the Message made of the two data fragments alone, if they make one
AssembledAlone ==
    LET m == MessageFrom(DataFrames[1].payload \o DataFrames[2].payload,
                         DataFrames[1].opcode)
    IN IF m.ok THEN { m.msg } ELSE {}

\* C20: read() never passes a control frame (opcode >= 8) to append_fragment,
\* and handling a control frame leaves the partial-message state unchanged:
\* the step of read() that handles a control frame leaves the partial
\* message as it is and adds no data message (a close frame ends read() with
\* the messages collected so far and a Close message, any other control
\* frame changes neither the messages nor the result of read()); and
\* with a ping, pong, close or reserved control frame between the two
\* fragments of a message, every data message read() collects or returns is
\* the Message assembled from the two fragments alone.
C20_ControlFramesBypassAssembler ==
    /\ [][ ( /\ InLoop
             /\ Parsed.res = "some"
             /\ opcode(Parsed.fragment) >= 8 )
           => /\ incomplete_message' = incomplete_message
              /\ IF opcode(Parsed.fragment) = 8
                 THEN /\ ret'.call = "read" /\ ret'.res = "ok"
                      /\ Len(ret'.msgs) = Len(messages) + 1
                      /\ SubSeq(ret'.msgs, 1, Len(messages)) = messages
                      /\ ret'.msgs[Len(ret'.msgs)].kind = "Close"
                 ELSE ret' = ret /\ messages' = messages ]_vars
    /\ [](\A i \in 1..Len(messages) :
             messages[i].kind # "Close" => messages[i] \in AssembledAlone)
    /\ [](\A i \in 1..Len(ret.msgs) :
             ret.msgs[i].kind # "Close" => ret.msgs[i] \in AssembledAlone)

\* a pong came between the two fragments of a text message, all three frames
\* were in one buffer, and read() returned the message of the two fragments
C20_Witness ==
    /\ Len(sent) = 3
    /\ sent[2].opcode = 10
    /\ pc = "idle"
    /\ ret = Ret("read", "ok", "", <<Text(<<195, 169>>)>>)
    /\ wire = <<>>
    /\ incomplete_message.bytes = <<>>

(***************************************************************************)
(* The frame parser on its own (specification ParserSpec): frames are put  *)
(* on the wire, the wire is cut into non-empty chunks, and append() is     *)
(* called on each chunk until the chunk is used up.                        *)
(***************************************************************************)
Key2 == <<0, 255, 128, 7>>

\* fin and opcode, mask bit and key, payloads of 0, 1, 5 and 126 bytes
ParserHeads == { <<TRUE, 2>>, <<FALSE, 1>>, <<TRUE, 9>> }

ParserKeys == { <<>>, Key1, Key2 }

ParserPayloads == { <<>>, <<65>>, <<1, 2, 3, 4, 5>>, Long126 }

ParserFrames ==
    { Frame(h[1], h[2], k # <<>>, k, b) :
        h \in ParserHeads, k \in ParserKeys, b \in ParserPayloads }

ParserInit ==
    /\ closed = FALSE
    /\ incomplete_fragment = <<>>
    /\ incomplete_message = NoIncompleteMessage
    /\ pc = "parser_setup"
    /\ panic = "none"
    /\ received = <<>>
    /\ messages = <<>>
    /\ hdr = <<>>
    /\ data = <<>>
    /\ sender = ""
    /\ wire = <<>>
    /\ out = <<>>
    /\ ret = NoRet
    /\ rxFrame = NoFragment
    /\ sends = <<>>
    /\ sent = <<>>
    /\ parts = <<>>
    /\ frames = <<>>
    /\ ioFailed = FALSE
    /\ closeSeen = FALSE
    /\ writeTick = FALSE
    /\ handler = ""
    /\ todo = <<>>

sessionVars == <<closed, incomplete_message, messages, hdr, data, sender, out,
                 ret, sends, ioFailed, parts, closeSeen, writeTick, handler,
                 todo>>

\* one more wire-encoded frame
Offer(f) ==
    /\ pc = "parser_setup"
    /\ Len(sent) < MaxFrames
    \* a frame that needs an extended length field is sent alone
    /\ Len(f.payload) >= 126 => sent = <<>>
    /\ sent # <<>> => Len(sent[1].payload) < 126
    /\ wire' = wire \o EncodeFrame(f)
    /\ sent' = Append(sent, f)
    /\ UNCHANGED <<incomplete_fragment, pc, panic, received, rxFrame, frames,
                   sessionVars>>

\* the next chunk: the first n bytes not yet fed
Feed(n) ==
    /\ pc \in {"parser_setup", "parser"}
    /\ received = <<>>
    /\ n \in 1..Len(wire)
    /\ received' = Take(wire, n)
    /\ wire' = Drop(wire, n)
    /\ pc' = "parser"
    /\ rxFrame' = NoFragment
    /\ UNCHANGED <<incomplete_fragment, panic, sent, frames, sessionVars>>

\* append(&mut chunk), called while bytes remain in the chunk
Parse ==
    /\ pc = "parser"
    /\ received # <<>>
    /\ LET r == append(incomplete_fragment, received) IN
       /\ incomplete_fragment' = r.self
       /\ received' = r.rest
       /\ pc' = IF r.res = "panic" THEN "panicked" ELSE pc
       /\ panic' = IF r.res = "panic" THEN r.why ELSE panic
       /\ rxFrame' = IF r.res = "some" THEN r.fragment ELSE NoFragment
       /\ frames' = IF r.res = "some" THEN Append(frames, FrameOf(r.fragment))
                    ELSE frames
    /\ UNCHANGED <<wire, sent, sessionVars>>

ParserNext ==
    \/ \E f \in ParserFrames : Offer(f)
    \/ \E n \in 1..Len(wire) : Feed(n)
    \/ Parse

ParserSpec == ParserInit /\ [][ParserNext]_vars

\* C1: for any sequence of wire-encoded frames and any cut of the bytes into
\* non-empty chunks, feeding the chunks in order to append() emits exactly
\* those frames, in order, each with its fin flag, opcode and payload, and
\* nothing else: the parser does not fail, what it has emitted so far are the
\* first frames sent, and once every byte is fed every frame is emitted.
C1_ParserEmitsTheFramesSent ==
    /\ pc # "panicked"
    /\ Len(frames) <= Len(sent)
    /\ \A i \in 1..Len(frames) : frames[i] = Plain(sent[i])
    /\ (pc = "parser" /\ wire = <<>> /\ received = <<>>) => Len(frames) = Len(sent)

\* C21: for every sequence of input bytes and every chunking of it across
\* append calls, no assertion of the parser fails and no buffer index is out
\* of range (the payload stage finds fewer bytes buffered than the end offset
\* of the frame, also for a declared payload length of 0), and the buffer of
\* an emitted frame is as long as its header and its payload together.
C21_ParserNeverPanics ==
    /\ panic = "none"
    /\ pc # "panicked"
    /\ rxFrame # NoFragment =>
          Len(rxFrame.bytes) = rxFrame.payload_offset + payload_len(rxFrame.bytes)

\* the bytes on the wire of the frame the parser has just emitted (the
\* frames come out in the order they were sent)
WireOfEmitted == EncodeFrame(sent[Len(frames)])

\* C11: for every frame the parser emits: if its mask bit is set, exposed
\* payload byte i is wire payload byte i XOR mask_key[i mod 4] for every i,
\* and the payload the client masked with that key is recovered exactly; if
\* its mask bit is clear, the exposed payload is the wire payload.
C11_EmittedPayloadIsUnmasked ==
    (pc = "parser" /\ rxFrame # NoFragment) =>
        LET w == WireOfEmitted
            n == Len(sent[Len(frames)].payload)
            off == Len(w) - n
            wirePayload == Drop(w, off)
            key == SubSeq(w, off - 3, off)
            exposed == payload(rxFrame)
        IN
        /\ Len(exposed) = n
        /\ IF w[2] >= 128
           THEN /\ \A i \in 1..n :
                     exposed[i] = Xor8(wirePayload[i], key[((i - 1) % 4) + 1])
                /\ exposed = sent[Len(frames)].payload
           ELSE exposed = wirePayload

\* a masked frame of five payload bytes (the key is used past its end, two of
\* its bytes are 0x00 and 0xff) has been emitted as the second of two
C11_Witness ==
    /\ pc = "parser"
    /\ rxFrame # NoFragment
    /\ Len(frames) = 2
    /\ sent[2].key = Key2
    /\ is_masked(rxFrame.bytes)
    /\ payload(rxFrame) = <<1, 2, 3, 4, 5>>

(***************************************************************************)
(* The message assembler on its own (specification AsmSpec):               *)
(* append_fragment() is called with one fragment after the other.          *)
(***************************************************************************)
\* bytes accumulated in a run, fragments of one message, bytes of one fragment
MaxMsgLen == 3

MaxParts == 2

MaxPayloadLen == 2

\* 'A', and the two bytes of U+00E9: each of 195 and 169 alone is not UTF-8
AsmBytes == { 65, 195, 169 }

RECURSIVE SeqsUpTo(_, _)
SeqsUpTo(S, n) ==
    IF n = 0 THEN { <<>> }
    ELSE LET shorter == SeqsUpTo(S, n - 1) IN
         shorter \cup { Append(q, x) : q \in { t \in shorter : Len(t) = n - 1 }, x \in S }

AsmPayloads == SeqsUpTo(AsmBytes, MaxPayloadLen)

\* a Fragment as the parser hands it over: the two header bytes, the payload
MkFragment(fin, op, body) ==
    [bytes |-> <<(IF fin THEN 128 ELSE 0) + op, Len(body)>> \o body,
     payload_offset |-> 2]

\* every opcode accepts_opcode and Message::from name in a match arm, and a
\* reserved data opcode and a reserved control opcode for their default arms
AsmOpcodes == { 0, 1, 2, 3, 8, 9, 10, 15 }

AsmFragments ==
    { MkFragment(fin, op, body) :
        fin \in BOOLEAN, op \in AsmOpcodes, body \in AsmPayloads }

AsmInit ==
    /\ closed = FALSE
    /\ incomplete_fragment = <<>>
    /\ incomplete_message = NoIncompleteMessage
    /\ pc = "assembler"
    /\ panic = "none"
    /\ received = <<>>
    /\ messages = <<>>
    /\ hdr = <<>>
    /\ data = <<>>
    /\ sender = ""
    /\ wire = <<>>
    /\ out = <<>>
    /\ ret = NoRet
    /\ rxFrame = NoFragment
    /\ sends = <<>>
    /\ sent = <<>>
    /\ parts = <<>>
    /\ frames = <<>>
    /\ ioFailed = FALSE
    /\ closeSeen = FALSE
    /\ writeTick = FALSE
    /\ handler = ""
    /\ todo = <<>>

otherVars == <<closed, incomplete_fragment, panic, received, messages, hdr, data,
               sender, wire, out, sends, sent, frames, ioFailed, closeSeen,
               writeTick, handler, todo>>

Rejected(r) == r.res = "err" /\ r.err = UnexpectedOpcode

\* the fragments accepted so far into the message the assembler is building
PartsAfter(ps, fragment, r) ==
    IF Rejected(r) THEN ps
    ELSE IF is_fin(fragment) THEN <<>>
    ELSE IF ps = <<>> \/ opcode(fragment) # 0 THEN <<FrameOf(fragment)>>
    ELSE Append(ps, FrameOf(fragment))

\* self.incomplete_message.append_fragment(fragment) is called and returns
Assemble(fragment) ==
    /\ pc = "assembler"
    /\ Len(incomplete_message.bytes) + Len(payload(fragment)) <= MaxMsgLen
    /\ LET r == append_fragment(incomplete_message, fragment) IN
       /\ Len(PartsAfter(parts, fragment, r)) <= MaxParts
       /\ incomplete_message' = r.self
       /\ ret' = Ret("append_fragment", r.res, r.err,
                     IF r.res = "msg" THEN <<r.msg>> ELSE <<>>)
       /\ parts' = PartsAfter(parts, fragment, r)
    /\ rxFrame' = fragment
    /\ pc' = "assembled"
    /\ UNCHANGED otherVars

\* the caller has looked at the result and goes on
Continue ==
    /\ pc = "assembled"
    /\ pc' = "assembler"
    /\ ret' = NoRet
    /\ rxFrame' = NoFragment
    /\ UNCHANGED <<incomplete_message, parts, otherVars>>

AsmNext ==
    \/ \E fragment \in AsmFragments : Assemble(fragment)
    \/ Continue

AsmSpec == AsmInit /\ [][AsmNext]_vars

(***************************************************************************)
(* Claims about the assembler (specification AsmSpec).  A step from        *)
(* "assembler" to "assembled" is one call of append_fragment(); its        *)
(* argument is rxFrame', its result ret'.                                  *)
(***************************************************************************)
Called == pc = "assembler" /\ pc' = "assembled"

RECURSIVE PayloadsOf(_)
\* the payloads of the fragments ps, concatenated in order
PayloadsOf(ps) ==
    IF ps = <<>> THEN <<>>
    ELSE PayloadsOf(SubSeq(ps, 1, Len(ps) - 1)) \o ps[Len(ps)].payload

\* ps are the first pieces of a fragmented text or binary message: the
\* message opcode on the first, 0x0 on the later ones, no piece empty
Pieces(ps) ==
    /\ ps # <<>>
    /\ ps[1].opcode \in {1, 2}
    /\ \A i \in 2..Len(ps) : ps[i].opcode = 0
    /\ \A i \in 1..Len(ps) : ps[i].payload # <<>> /\ ~ps[i].fin

\* C3: a text or binary message cut into N >= 1 non-empty pieces and given
\* to append_fragment as N fragments (message opcode first, then 0x0, fin
\* only on the last), starting with nothing in progress: every call before
\* the last returns no message, the last returns one Message, the pieces
\* concatenated, of the variant of the first opcode, and then nothing is in
\* progress.  (A text message is one whose bytes are UTF-8.)
C3_FragmentsReassemble ==
    [][ LET arg == rxFrame'
            first == IF parts = <<>> THEN opcode(arg) ELSE parts[1].opcode
            all == PayloadsOf(parts) \o payload(arg)
        IN
        ( /\ Called
          /\ payload(arg) # <<>>
          /\ IF parts = <<>>
             THEN Len(incomplete_message.bytes) = 0 /\ opcode(arg) \in {1, 2}
             ELSE Pieces(parts) /\ opcode(arg) = 0 )
        =>
        IF is_fin(arg)
        THEN (first = 1 => from_utf8(all)) =>
                /\ ret'.res = "msg"
                /\ ret'.msgs = << IF first = 1 THEN Text(all) ELSE Binary(all) >>
                /\ incomplete_message'.bytes = <<>>
                /\ parts' = <<>>
        ELSE /\ ret'.res = "none"
             /\ ret'.msgs = <<>>
             /\ incomplete_message'.bytes = all
             /\ Pieces(parts')
      ]_vars

\* a text message of three pieces, U+00E9 cut between its two bytes, has come
\* out of the last call
C3_Witness ==
    /\ pc = "assembled"
    /\ is_fin(rxFrame)
    /\ opcode(rxFrame) = 0
    /\ payload(rxFrame) = <<169>>
    /\ ret.msgs = << Text(<<65, 195, 169>>) >>
    /\ incomplete_message.bytes = <<>>

\* C6: with no message in progress, append_fragment called with a
\* continuation frame (opcode 0x0, any fin, any payload) fails with the
\* unexpected-opcode error, returns no message and leaves the accumulated
\* buffer and the remembered opcode as they were.
C6_ContinuationWithoutMessage ==
    [][ (Called /\ parts = <<>> /\ opcode(rxFrame') = 0) =>
            /\ ret'.res = "err"
            /\ ret'.err = UnexpectedOpcode
            /\ ret'.msgs = <<>>
            /\ incomplete_message' = incomplete_message
      ]_vars

\* after a message was completed (its opcode is still remembered) a
\* continuation frame with a payload has been refused
C6_Witness ==
    /\ pc = "assembled"
    /\ parts = <<>>
    /\ opcode(rxFrame) = 0
    /\ payload(rxFrame) # <<>>
    /\ ret.err = UnexpectedOpcode
    /\ incomplete_message.opcode = 2
    /\ incomplete_message.bytes = <<>>

\* C7: from the moment a first fragment with fin = 0 (text or binary, payload
\* of any length, zero included) is accepted until a fin = 1 fragment
\* completes the message, every fragment whose opcode is not 0x0 is rejected
\* with the unexpected-opcode error and the accumulated state is unchanged.
C7_OnlyContinuationsInProgress ==
    [][ (Called /\ parts # <<>> /\ parts[1].opcode \in {1, 2} /\ opcode(rxFrame') # 0) =>
            /\ Rejected(ret')
            /\ incomplete_message' = incomplete_message
      ]_vars

\* C8: with no message in progress append_fragment accepts exactly the
\* opcodes 0x1 and 0x2: for every other 4-bit opcode it fails with the
\* unexpected-opcode error and accumulates nothing.
C8_OnlyTextAndBinaryStart ==
    [][ (Called /\ parts = <<>>) =>
            /\ opcode(rxFrame') \in {1, 2} => ~Rejected(ret')
            /\ opcode(rxFrame') \notin {1, 2} =>
                  (Rejected(ret') /\ incomplete_message' = incomplete_message)
      ]_vars

\* C9: a message started with opcode 0x1 yields Text if and only if all its
\* fragments' payloads, concatenated, are UTF-8 (judged when the fin = 1
\* fragment arrives); otherwise that call fails with the invalid-text-payload
\* error and yields no Message.  A message started with 0x2 yields Binary
\* whatever its bytes.
C9_TextIffUtf8 ==
    [][ LET arg == rxFrame'
            first == IF parts = <<>> THEN opcode(arg) ELSE parts[1].opcode
            all == PayloadsOf(parts) \o payload(arg)
        IN
        ( /\ Called
          /\ is_fin(arg)
          /\ first \in {1, 2}
          /\ parts # <<>> => opcode(arg) = 0 )
        =>
        IF first = 1 /\ ~from_utf8(all)
        THEN ret'.res = "err" /\ ret'.err = InvalidTextPayload /\ ret'.msgs = <<>>
        ELSE /\ ret'.res = "msg"
             /\ ret'.msgs = << IF first = 1 THEN Text(all) ELSE Binary(all) >>
      ]_vars

\* C24: after append_fragment has failed with the invalid-text-payload error
\* the assembler holds no message in progress (its buffer is empty, the take
\* having emptied it before the conversion failed): the next text or binary
\* fragment starts a new message, made of its payload alone, and a next
\* continuation fragment is rejected.  After an unexpected-opcode rejection
\* the partial message is as it was before the call.
C24_StateAfterAssemblerErrors ==
    /\ [][ (Called /\ ret'.res = "err" /\ ret'.err = InvalidTextPayload) =>
              /\ incomplete_message'.bytes = <<>>
              /\ parts' = <<>> ]_vars
    /\ []( (pc = "assembled" /\ ret.res = "err" /\ ret.err = InvalidTextPayload) =>
            \A next \in AsmFragments :
                LET r == append_fragment(incomplete_message, next) IN
                /\ opcode(next) = 0 => (Rejected(r) /\ r.self = incomplete_message)
                /\ opcode(next) \in {1, 2} =>
                      IF is_fin(next)
                      THEN LET m == MessageFrom(payload(next), opcode(next)) IN
                           /\ r.res = (IF m.ok THEN "msg" ELSE "err")
                           /\ r.msg = m.msg
                           /\ r.self.bytes = <<>>
                      ELSE /\ r.res = "none"
                           /\ r.self = [opcode |-> opcode(next),
                                        bytes |-> payload(next)] )
    /\ [][ (Called /\ Rejected(ret')) =>
              /\ incomplete_message' = incomplete_message
              /\ parts' = parts ]_vars

\* the final continuation fragment of a text message made its bytes end in
\* the middle of U+00E9: the call failed with the invalid-text-payload error
\* and the buffer is empty
C24_Witness ==
    /\ pc = "assembled"
    /\ ret = Ret("append_fragment", "err", InvalidTextPayload, <<>>)
    /\ opcode(rxFrame) = 0
    /\ is_fin(rxFrame)
    /\ payload(rxFrame) = <<195>>
    /\ incomplete_message = [opcode |-> 1, bytes |-> <<>>]

(***************************************************************************)
(* The handshake: upgrade() hashes the client's key followed by the GUID    *)
(* with SHA-1 (the sha1 crate; modelled after FIPS 180-4 on 32-bit words    *)
(* kept as <<high 16 bits, low 16 bits>>) and encodes the digest with       *)
(* hash_to_base64().  Strings are sequences of character codes.             *)
(***************************************************************************)
RECURSIVE AndBits(_, _, _)
AndBits(a, b, n) ==
    IF n = 0 THEN 0
    ELSE ((a % 2) * (b % 2)) + 2 * AndBits(a \div 2, b \div 2, n - 1)

And32(x, y) == <<AndBits(x[1], y[1], 16), AndBits(x[2], y[2], 16)>>

Xor32(x, y) == <<XorBits(x[1], y[1], 16), XorBits(x[2], y[2], 16)>>

Or32(x, y) ==
    <<x[1] + y[1] - AndBits(x[1], y[1], 16), x[2] + y[2] - AndBits(x[2], y[2], 16)>>

Not32(x) == <<65535 - x[1], 65535 - x[2]>>

Add32(x, y) ==
    LET lo == x[2] + y[2] IN
    <<(x[1] + y[1] + (lo \div 65536)) % 65536, lo % 65536>>

RECURSIVE Rotl32(_, _)
Rotl32(x, n) ==
    IF n >= 16 THEN Rotl32(<<x[2], x[1]>>, n - 16)
    ELSE <<((x[1] * (2 ^ n)) % 65536) + (x[2] \div (2 ^ (16 - n))),
           ((x[2] * (2 ^ n)) % 65536) + (x[1] \div (2 ^ (16 - n)))>>

\* the message, 0x80, zeros up to 56 mod 64, the bit length on 8 bytes
Sha1Pad(msg) ==
    LET n == Len(msg)
        zeros == (119 - (n % 64)) % 64
    IN msg \o <<128>> \o [i \in 1..zeros |-> 0] \o ToBeBytes(8 * n, 8)

Sha1Words(block) ==
    [i \in 1..16 |-> <<256 * block[4 * i - 3] + block[4 * i - 2],
                       256 * block[4 * i - 1] + block[4 * i]>>]

RECURSIVE Sha1Schedule(_)
Sha1Schedule(w) ==
    IF Len(w) = 80 THEN w
    ELSE LET n == Len(w) + 1 IN
         Sha1Schedule(Append(w,
            Rotl32(Xor32(Xor32(w[n - 3], w[n - 8]), Xor32(w[n - 14], w[n - 16])), 1)))

Sha1F(t, b, c, d) ==
    IF t < 20 THEN Or32(And32(b, c), And32(Not32(b), d))
    ELSE IF t < 40 THEN Xor32(Xor32(b, c), d)
    ELSE IF t < 60 THEN Or32(Or32(And32(b, c), And32(b, d)), And32(c, d))
    ELSE Xor32(Xor32(b, c), d)

Sha1K(t) ==
    IF t < 20 THEN <<23170, 31129>>
    ELSE IF t < 40 THEN <<28377, 60321>>
    ELSE IF t < 60 THEN <<36635, 48348>>
    ELSE <<51810, 49622>>

RECURSIVE Sha1Rounds(_, _, _)
\* rounds t..79 on the working variables v = <<a, b, c, d, e>>
Sha1Rounds(t, v, w) ==
    IF t = 80 \/ Len(v) # 5 THEN v
    ELSE LET temp == Add32(Add32(Add32(Rotl32(v[1], 5), Sha1F(t, v[2], v[3], v[4])),
                                 Add32(v[5], Sha1K(t))),
                           w[t + 1])
         IN Sha1Rounds(t + 1, <<temp, v[1], Rotl32(v[2], 30), v[3], v[4]>>, w)

Sha1H0 == << <<26437, 8961>>, <<61389, 43913>>, <<39098, 56574>>, <<4146, 21622>>,
             <<50130, 57840>> >>

RECURSIVE Sha1Blocks(_, _)
Sha1Blocks(h, bytes) ==
    IF bytes = <<>> THEN h
    ELSE LET v == Sha1Rounds(0, h, Sha1Schedule(Sha1Words(Take(bytes, 64)))) IN
         Sha1Blocks([i \in 1..5 |-> Add32(h[i], v[i])], Drop(bytes, 64))

\* Sha1::new(), update(msg), finalize(): the 20 bytes of the digest
Sha1(msg) ==
    LET h == Sha1Blocks(Sha1H0, Sha1Pad(msg)) IN
    [i \in 1..20 |->
        LET word == h[((i - 1) \div 4) + 1]
            half == IF ((i - 1) % 4) < 2 THEN word[1] ELSE word[2]
        IN IF i % 2 = 1 THEN half \div 256 ELSE half % 256]

\* a faulty base64_convert: the URL-safe alphabet ('-' and '_' for 62 and 63)
base64_convert_urlsafe(block) ==
    IF block < 26 THEN 65 + block
    ELSE IF block < 52 THEN 97 + block - 26
    ELSE IF block < 62 THEN 48 + block - 52
    ELSE IF block = 62 THEN 45
    ELSE 95

\* base64_convert(block): the character of a 6-bit value
base64_convert(block) ==
    IF block < 26 THEN 65 + block
    ELSE IF block < 52 THEN 97 + block - 26
    ELSE IF block < 62 THEN 48 + block - 52
    ELSE IF block = 62 THEN 43
    ELSE 47

\* x << n and x >> n on u8
Shl8(x, n) == (x * (2 ^ n)) % 256

Shr8(x, n) == x \div (2 ^ n)

\* a | b for bytes
Or8(a, b) == a + b - AndBits(a, b, 8)

RECURSIVE Base64Loop(_, _)
\* the body of hash_to_base64's loop for i, i + 3, ...: i is the 0-based index
Base64Loop(bytes, i) ==
    IF i >= Len(bytes) THEN <<>>
    ELSE IF i + 1 >= Len(bytes)
    THEN LET byte0 == bytes[i + 1]
             byte1 == 0
             b0 == AndBits(Shr8(byte0, 2), 63, 8)
             b1 == AndBits(Or8(Shl8(byte0, 4), Shr8(byte1, 4)), 63, 8)
         IN <<base64_convert(b0), base64_convert(b1), 61, 61>>
              \o Base64Loop(bytes, i + 3)
    ELSE IF i + 2 >= Len(bytes)
    THEN LET byte0 == bytes[i + 1]
             byte1 == bytes[i + 2]
             byte2 == 0
             b0 == AndBits(Shr8(byte0, 2), 63, 8)
             b1 == AndBits(Or8(Shl8(byte0, 4), Shr8(byte1, 4)), 63, 8)
             b2 == AndBits(Or8(Shl8(byte1, 2), Shr8(byte2, 6)), 63, 8)
         IN <<base64_convert(b0), base64_convert(b1), base64_convert(b2), 61>>
              \o Base64Loop(bytes, i + 3)
    ELSE LET byte0 == bytes[i + 1]
             byte1 == bytes[i + 2]
             byte2 == bytes[i + 3]
             b0 == AndBits(Shr8(byte0, 2), 63, 8)
             b1 == AndBits(Or8(Shl8(byte0, 4), Shr8(byte1, 4)), 63, 8)
             b2 == AndBits(Or8(Shl8(byte1, 2), Shr8(byte2, 6)), 63, 8)
             b3 == AndBits(byte2, 63, 8)
         IN <<base64_convert(b0), base64_convert(b1), base64_convert(b2),
              base64_convert(b3)>> \o Base64Loop(bytes, i + 3)

\* hash_to_base64(bytes), bytes.len() == 20
hash_to_base64(bytes) == Base64Loop(bytes, 0)

\* "258EAFA5-E914-47DA-95CA-C5AB0DC85B11"
GUID ==
    <<50, 53, 56, 69, 65, 70, 65, 53, 45, 69, 57, 49, 52, 45, 52, 55, 68, 65, 45,
      57, 53, 67, 65, 45, 67, 53, 65, 66, 48, 68, 67, 56, 53, 66, 49, 49>>

\* "dGhlIHNhbXBsZSBub25jZQ==", the sample nonce of RFC 6455
SampleKey ==
    <<100, 71, 104, 108, 73, 72, 78, 104, 98, 88, 66, 115, 90, 83, 66, 117, 98,
      50, 53, 106, 90, 81, 61, 61>>

\* "x3JJHMbDL1EzLkh9GBhXDw=="
OtherKey ==
    <<120, 51, 74, 74, 72, 77, 98, 68, 76, 49, 69, 122, 76, 107, 104, 57, 71, 66,
      104, 88, 68, 119, 61, 61>>

\* values of the Sec-WebSocket-Key header (one of them empty)
HandshakeKeys == { SampleKey, OtherKey, <<>> }

\* digests given to hash_to_base64 directly: one byte set, at every place, to
\* values that touch every 6-bit group boundary; all bytes 0xff
HandshakeDigests ==
    { [i \in 1..20 |-> IF i = p THEN b ELSE 0] :
          p \in 1..20, b \in {0, 1, 3, 4, 15, 16, 63, 64, 128, 252, 255} }
    \cup { [i \in 1..20 |-> 255] }

\* the request has come in (wire: its key), or a digest is at hand (received)
HandshakeInit ==
    /\ closed = FALSE
    /\ incomplete_fragment = <<>>
    /\ incomplete_message = NoIncompleteMessage
    /\ \/ pc = "upgrade" /\ wire \in HandshakeKeys /\ received = <<>>
       \/ pc = "hashed" /\ wire = <<>> /\ received \in HandshakeDigests
    /\ panic = "none"
    /\ messages = <<>>
    /\ hdr = <<>>
    /\ data = <<>>
    /\ sender = ""
    /\ out = <<>>
    /\ ret = NoRet
    /\ rxFrame = NoFragment
    /\ sends = <<>>
    /\ sent = <<>>
    /\ parts = <<>>
    /\ frames = <<>>
    /\ ioFailed = FALSE
    /\ closeSeen = FALSE
    /\ writeTick = FALSE
    /\ handler = ""
    /\ todo = <<>>

handshakeOther == <<closed, incomplete_fragment, incomplete_message, panic,
                    messages, hdr, data, sender, ret, rxFrame, sends, sent,
                    parts, frames, ioFailed, closeSeen, writeTick, wire,
                    handler, todo>>

\* upgrade(): hasher.update(format!("{key}{concat}")); hasher.finalize()
Digest ==
    /\ pc = "upgrade"
    /\ received' = Sha1(wire \o GUID)
    /\ pc' = "hashed"
    /\ UNCHANGED <<handshakeOther, out>>

\* upgrade(): b64 = hash_to_base64(&hash), sent as Sec-WebSocket-Accept
Encode ==
    /\ pc = "hashed"
    /\ out' = hash_to_base64(received)
    /\ pc' = "upgraded"
    /\ UNCHANGED <<handshakeOther, received>>

HandshakeNext == Digest \/ Encode

HandshakeSpec == HandshakeInit /\ [][HandshakeNext]_vars

\* RFC 4648: the alphabet, and the encoding of a byte string: its bits in
\* groups of 6 (the last filled up with zero bits), '=' up to a multiple of 4
StdAlphabet ==
    [i \in 1..64 |-> IF i <= 26 THEN 64 + i
                     ELSE IF i <= 52 THEN 70 + i
                     ELSE IF i <= 62 THEN i - 5
                     ELSE IF i = 63 THEN 43 ELSE 47]

StdBit(bytes, j) ==
    IF j > 8 * Len(bytes) THEN 0
    ELSE (bytes[((j - 1) \div 8) + 1] \div (2 ^ (7 - ((j - 1) % 8)))) % 2

StdBase64(bytes) ==
    LET groups == (8 * Len(bytes) + 5) \div 6
        value(k) == 32 * StdBit(bytes, 6 * k - 5) + 16 * StdBit(bytes, 6 * k - 4)
                    + 8 * StdBit(bytes, 6 * k - 3) + 4 * StdBit(bytes, 6 * k - 2)
                    + 2 * StdBit(bytes, 6 * k - 1) + StdBit(bytes, 6 * k)
    IN [k \in 1..groups |-> StdAlphabet[value(k) + 1]]
         \o [k \in 1..((4 - (groups % 4)) % 4) |-> 61]

\* "s3pPLMBiTxaQ9kYGzzhZRbK+xOo="
SampleToken ==
    <<115, 51, 112, 80, 76, 77, 66, 105, 84, 120, 97, 81, 57, 107, 89, 71, 122,
      122, 104, 90, 82, 98, 75, 43, 120, 79, 111, 61>>

\* C17: the accept token upgrade puts in Sec-WebSocket-Accept is the standard
\* base64 encoding ('=' padding) of the 20-byte SHA-1 digest of the client
\* nonce followed by the GUID, and is always exactly 28 characters; for the
\* nonce "dGhlIHNhbXBsZSBub25jZQ==" it is "s3pPLMBiTxaQ9kYGzzhZRbK+xOo=".
C17_AcceptToken ==
    /\ pc \in {"hashed", "upgraded"} => Len(received) = 20
    /\ pc = "upgraded" =>
          /\ out = StdBase64(received)
          /\ Len(out) = 28
          /\ wire = SampleKey => out = SampleToken

\* the token for the sample nonce has been computed
C17_Witness ==
    /\ pc = "upgraded"
    /\ wire = SampleKey
    /\ out = SampleToken

====
